---- MODULE Spec2Model ----
(***************************************************************************)
(* Model of the Q-learning agent of src/agent/agent.py: the state          *)
(* abstraction Q_State (key and reward) and the Agent (construction and    *)
(* load, choose_action, initialize_q_table, update_q_table, save).         *)
(*                                                                         *)
(* Python dicts are modelled as sequences of <<key, value>> pairs in       *)
(* insertion order.  Q-values are fixed-point numbers in units of 1/Scale. *)
(* Python's None is the string "None"; an absent state is NoState.         *)
(***************************************************************************)
EXTENDS Integers, Sequences, FiniteSets, TLC

\* ------------------------------------------------------------------ bounds
\* operations (constructions and choose_action calls) in one behaviour
MaxSteps == 3
\* number of distinct values random.uniform(0, 1) is drawn from
NumSeeds == 2
\* scores range over 0..MaxScore
MaxScore == 1
\* the exploration draw random.uniform(0, 2) takes NumDraws + 1 values
NumDraws == 1
\* width and height of the boards the key derivation is checked on
GridW == 2
GridH == 1

\* --------------------------------------------------------- program values
None == "None"

\* Q-values are counted in hundredths: learning_rate and discount_factor are
\* given in tenths, so their product is exact in this unit
Scale == 10 * 10

\* self.learning_rate = 0.1 and self.discount_factor = 0.9, in tenths
LearningRateTenths == 1
DiscountFactorTenths == 9
\* exploration_rate = 0.1, in tenths
ExplorationRateTenths == 1
\* the upper end of random.uniform(0, 2)
UniformHigh == 2
\* the penalty of Q_State.reward for a state that is done and not at goal
DonePenalty == 10

\* State.ACTIONS (ACTIONS is a reserved word of TLA+)
STATE_ACTIONS == <<"u", "d", "l", "r", "_">>

ActionSet == {STATE_ACTIONS[i] : i \in 1..Len(STATE_ACTIONS)}

\* ------------------------------------------------------------ Python dict
\* a dict is a sequence of <<key, value>> pairs, in insertion order
EmptyDict == <<>>

DictHas(d, k) == \E i \in 1..Len(d) : d[i][1] = k

\* d.get(k, default)
DictGet(d, k, default) ==
    IF DictHas(d, k)
    THEN d[CHOOSE i \in 1..Len(d) : d[i][1] = k][2]
    ELSE default

\* d[k] = v: an existing key keeps its place, a new key is appended
DictSet(d, k, v) ==
    IF DictHas(d, k)
    THEN [i \in 1..Len(d) |-> IF d[i][1] = k THEN <<k, v>> ELSE d[i]]
    ELSE Append(d, <<k, v>>)

\* a max that returns the last key holding the largest value
MaxKeyLast(d) ==
    IF Len(d) = 0
    THEN None
    ELSE d[CHOOSE i \in 1..Len(d) :
               /\ \A j \in 1..Len(d) : d[j][2] <= d[i][2]
               /\ \A j \in (i + 1)..Len(d) : d[j][2] < d[i][2]][1]

\* max(d, key=d.get, default=None): the first key holding the largest value
MaxKey(d) ==
    IF Len(d) = 0
    THEN None
    ELSE d[CHOOSE i \in 1..Len(d) :
               /\ \A j \in 1..Len(d) : d[j][2] <= d[i][2]
               /\ \A j \in 1..(i - 1) : d[j][2] < d[i][2]][1]

\* max(d.values(), default=0)
MaxValue(d) ==
    IF Len(d) = 0
    THEN 0
    ELSE d[CHOOSE i \in 1..Len(d) : \A j \in 1..Len(d) : d[j][2] <= d[i][2]][2]

\* ------------------------------------------------------ State and Q_State
\* A state description: the board rows (rows[y + 1][x + 1] is the cell at
\* x, y; None is an unoccupied cell), the frog's position and the flags.
NoState == [is_none |-> TRUE]

MkState(rows, x, y, score, done, goal) ==
    [rows |-> rows, frog_x |-> x, frog_y |-> y,
     score |-> score, is_done |-> done, at_goal |-> goal]

\* State.get(x, y): the cell at x, y, None when out of bounds or unoccupied
StateGet(s, x, y) ==
    IF /\ y >= 0 /\ y < Len(s.rows)
       /\ x >= 0 /\ x < Len(s.rows[y + 1])
    THEN s.rows[y + 1][x + 1]
    ELSE None

\* `v or '_'`
OrPlaceholder(v) == IF v = None \/ v = "" THEN "_" ELSE v

\* a key whose fifth cell is read at the frog's own position
ComputeKeyReadsOwnCell(s) ==
    OrPlaceholder(StateGet(s, s.frog_x - 1, s.frog_y - 1)) \o
    OrPlaceholder(StateGet(s, s.frog_x, s.frog_y - 1)) \o
    OrPlaceholder(StateGet(s, s.frog_x + 1, s.frog_y - 1)) \o
    OrPlaceholder(StateGet(s, s.frog_x - 1, s.frog_y)) \o
    OrPlaceholder(StateGet(s, s.frog_x, s.frog_y)) \o
    OrPlaceholder(StateGet(s, s.frog_x - 1, s.frog_y + 1)) \o
    OrPlaceholder(StateGet(s, s.frog_x, s.frog_y + 1)) \o
    OrPlaceholder(StateGet(s, s.frog_x + 1, s.frog_y + 1))

\* Q_State._compute_key
ComputeKey(s) ==
    OrPlaceholder(StateGet(s, s.frog_x - 1, s.frog_y - 1)) \o
    OrPlaceholder(StateGet(s, s.frog_x, s.frog_y - 1)) \o
    OrPlaceholder(StateGet(s, s.frog_x + 1, s.frog_y - 1)) \o
    OrPlaceholder(StateGet(s, s.frog_x - 1, s.frog_y)) \o
    OrPlaceholder(StateGet(s, s.frog_x + 1, s.frog_y)) \o
    OrPlaceholder(StateGet(s, s.frog_x - 1, s.frog_y + 1)) \o
    OrPlaceholder(StateGet(s, s.frog_x, s.frog_y + 1)) \o
    OrPlaceholder(StateGet(s, s.frog_x + 1, s.frog_y + 1))

\* Q_State.__init__: the state description with its key
QState(s) ==
    [rows |-> s.rows, frog_x |-> s.frog_x, frog_y |-> s.frog_y,
     score |-> s.score, is_done |-> s.is_done, at_goal |-> s.at_goal,
     key |-> ComputeKey(s)]

\* a reward that tests is_done before at_goal
RewardDoneFirst(qs) ==
    IF qs.is_done THEN -DonePenalty
    ELSE IF qs.at_goal THEN qs.score
    ELSE 0

\* Q_State.reward
Reward(qs) ==
    IF qs.at_goal THEN qs.score
    ELSE IF qs.is_done THEN -DonePenalty
    ELSE 0

\* ------------------------------------------------------------------- JSON
\* json.dump writes an object as its members in the dict's order; a key that
\* is not a string is written as its JSON text (None as "null"); a number is
\* written as its shortest repr, which json.load reads back as the same number
JsonKey(k) == IF k = None THEN "null" ELSE k

\* a writer that keeps one decimal of a number
JsonNumberOneDecimal(v) == (v \div 10) * 10

JsonNumber(v) == v

JsonObject(d) ==
    [i \in 1..Len(d) |-> <<JsonKey(d[i][1]), JsonNumber(d[i][2])>>]

\* json.dump(self.q, f): the text of the table, an object of objects
JsonDump(table) ==
    [i \in 1..Len(table) |-> <<JsonKey(table[i][1]), JsonObject(table[i][2])>>]

\* json.load builds a dict from an object's members, first to last: a
\* repeated name keeps its first place and its last value
RECURSIVE DictOfMembers(_)
DictOfMembers(members) ==
    IF Len(members) = 0
    THEN EmptyDict
    ELSE LET n == Len(members)
         IN DictSet(DictOfMembers(SubSeq(members, 1, n - 1)),
                    members[n][1], members[n][2])

\* json.load(f)
JsonLoad(text) ==
    DictOfMembers([i \in 1..Len(text) |->
                       <<text[i][1], DictOfMembers(text[i][2])>>])

\* the file at self.path: absent, or holding a JSON text
NoFile == [exists |-> FALSE, text |-> <<>>]

FileOf(table) == [exists |-> TRUE, text |-> JsonDump(table)]

\* ------------------------------------------------------------------ Agent
\* An agent `self` is a record of its fields q, prev_state, prev_action and
\* train, with `file`, the file at self.path, and `raised`, whether the
\* operation ended in an exception.

\* Agent.__init__ up to the call of load: the fields of a new agent
NewAgent(t, f) ==
    [q |-> EmptyDict, prev_state |-> NoState, prev_action |-> None,
     train |-> t, file |-> f, raised |-> FALSE]

\* a load that tolerates a missing file in every mode
LoadNeverRaises(self) ==
    IF self.file.exists
    THEN [self EXCEPT !.q = JsonLoad(self.file.text)]
    ELSE self

\* a load that raises on a missing file in every mode
LoadRaisesOnMissing(self) ==
    IF self.file.exists
    THEN [self EXCEPT !.q = JsonLoad(self.file.text)]
    ELSE [self EXCEPT !.raised = TRUE]

\* Agent.load
Load(self) ==
    IF self.file.exists
    THEN [self EXCEPT !.q = JsonLoad(self.file.text)]
    ELSE IF self.train # None
         THEN self
         ELSE [self EXCEPT !.raised = TRUE]

\* Agent.save
Save(self) == [self EXCEPT !.file = [exists |-> TRUE, text |-> JsonDump(self.q)]]

\* the dict literal of initialize_q_table
ZeroEntries == <<<<"u", 0>>, <<"d", 0>>, <<"l", 0>>, <<"r", 0>>, <<"_", 0>>>>

\* an initialize_q_table that creates the entry of the previous action only
InitializeQTableSeedOnly(self, seed) ==
    IF self.prev_state # NoState /\ ~DictHas(self.q, QState(self.prev_state).key)
    THEN [self EXCEPT !.q =
             DictSet(self.q, QState(self.prev_state).key,
                     IF self.prev_action # None
                     THEN <<<<self.prev_action, seed>>>>
                     ELSE ZeroEntries)]
    ELSE self

\* an initialize_q_table that does not test whether the key is in the table
InitializeQTableOverwrites(self, seed) ==
    IF self.prev_state # NoState
    THEN [self EXCEPT !.q =
             DictSet(self.q, QState(self.prev_state).key,
                     IF self.prev_action # None
                     THEN DictSet(ZeroEntries, self.prev_action, seed)
                     ELSE ZeroEntries)]
    ELSE self

\* Agent.initialize_q_table; seed is the value of random.uniform(0, 1)
InitializeQTable(self, seed) ==
    IF self.prev_state # NoState
    THEN LET key == QState(self.prev_state).key
         IN IF ~DictHas(self.q, key)
            THEN [self EXCEPT !.q =
                     DictSet(self.q, key,
                             IF self.prev_action # None
                             THEN DictSet(ZeroEntries, self.prev_action, seed)
                             ELSE ZeroEntries)]
            ELSE self
    ELSE self

\* a new_q_value that discounts the reward too
NewQValueDiscountsReward(current_q_value, reward, max_next_q_value) ==
    ((10 - LearningRateTenths) * 10 * current_q_value
       + LearningRateTenths * DiscountFactorTenths
           * (reward * Scale + max_next_q_value))
    \div 100

\* new_q_value of update_q_table, in units of 1/Scale, rounded down
NewQValue(current_q_value, reward, max_next_q_value) ==
    ((10 - LearningRateTenths) * 10 * current_q_value
       + LearningRateTenths
           * (10 * reward * Scale + DiscountFactorTenths * max_next_q_value))
    \div 100

\* an update_q_table that replaces the entries of the key by the new one
UpdateQTableReplacesEntries(self, reward, next_state_string) ==
    LET key == QState(self.prev_state).key
        new_q_value ==
            NewQValue(DictGet(DictGet(self.q, key, EmptyDict), self.prev_action, 0),
                      reward,
                      MaxValue(DictGet(self.q, QState(next_state_string).key,
                                       EmptyDict)))
    IN [self EXCEPT
           !.q = DictSet(self.q, key, <<<<self.prev_action, new_q_value>>>>),
           !.file = [exists |-> TRUE,
                     text |-> JsonDump(DictSet(self.q, key,
                                  <<<<self.prev_action, new_q_value>>>>))]]

\* an update_q_table that does not call save
UpdateQTableNoSave(self, reward, next_state_string) ==
    LET key == QState(self.prev_state).key
        new_q_value ==
            NewQValue(DictGet(DictGet(self.q, key, EmptyDict), self.prev_action, 0),
                      reward,
                      MaxValue(DictGet(self.q, QState(next_state_string).key,
                                       EmptyDict)))
    IN [self EXCEPT !.q =
           DictSet(self.q, key,
                   DictSet(DictGet(self.q, key, EmptyDict),
                           self.prev_action, new_q_value))]

\* Agent.update_q_table
UpdateQTable(self, reward, next_state_string) ==
    LET current_state == QState(self.prev_state)
        next_state == QState(next_state_string)
        current_q_value ==
            DictGet(DictGet(self.q, current_state.key, EmptyDict),
                    self.prev_action, 0)
        max_next_q_value ==
            MaxValue(DictGet(self.q, next_state.key, EmptyDict))
        new_q_value == NewQValue(current_q_value, reward, max_next_q_value)
        q1 == IF ~DictHas(self.q, current_state.key)
              THEN DictSet(self.q, current_state.key, EmptyDict)
              ELSE self.q
        q2 == DictSet(q1, current_state.key,
                      DictSet(DictGet(q1, current_state.key, EmptyDict),
                              self.prev_action, new_q_value))
    IN Save([self EXCEPT !.q = q2])

\* random.uniform(0, 2) < exploration_rate, the draw in units of 1/Scale
Explores(draw) == draw * 10 < ExplorationRateTenths * Scale

\* the action choose_action selects: first_choice and explore_choice are the
\* values of the two random.choice(State.ACTIONS) calls
ChosenAction(self, current_state, first_choice, draw, explore_choice) ==
    IF Explores(draw)
    THEN explore_choice
    ELSE MaxKey(DictGet(self.q, current_state.key, EmptyDict))

\* an update guard that tests the previous state only
AppliesUpdateAfterAnyState(self) == self.prev_state # NoState

\* whether choose_action calls update_q_table
AppliesUpdate(self) == self.prev_state # NoState /\ self.prev_action # None

\* a choose_action whose update uses the value of the action it has chosen in
\* place of the largest value of the next state
ChooseActionOnPolicy(self, state_string, first_choice, draw, explore_choice, seed) ==
    LET current_state == QState(state_string)
        chosen_action ==
            ChosenAction(self, current_state, first_choice, draw, explore_choice)
        s1 == InitializeQTable(self, seed)
        key == QState(s1.prev_state).key
        new_q_value ==
            NewQValue(DictGet(DictGet(s1.q, key, EmptyDict), s1.prev_action, 0),
                      Reward(current_state),
                      DictGet(DictGet(s1.q, current_state.key, EmptyDict),
                              chosen_action, 0))
        s2 == IF AppliesUpdate(s1)
              THEN Save([s1 EXCEPT !.q =
                            DictSet(s1.q, key,
                                    DictSet(DictGet(s1.q, key, EmptyDict),
                                            s1.prev_action, new_q_value))])
              ELSE s1
    IN [self |-> [s2 EXCEPT !.prev_state = state_string,
                            !.prev_action = chosen_action],
        ret |-> chosen_action]

\* a choose_action that initializes the entry of the current state's key
ChooseActionInitializesCurrent(self, state_string, first_choice, draw, explore_choice, seed) ==
    LET current_state == QState(state_string)
        chosen_action ==
            ChosenAction(self, current_state, first_choice, draw, explore_choice)
        s0 == InitializeQTable([self EXCEPT !.prev_state = state_string], seed)
        s1 == [s0 EXCEPT !.prev_state = self.prev_state]
        s2 == IF AppliesUpdate(s1)
              THEN UpdateQTable(s1, Reward(current_state), state_string)
              ELSE s1
    IN [self |-> [s2 EXCEPT !.prev_state = state_string,
                            !.prev_action = chosen_action],
        ret |-> chosen_action]

\* Agent.choose_action: the agent after the call and the value returned
ChooseAction(self, state_string, first_choice, draw, explore_choice, seed) ==
    LET current_state == QState(state_string)
        chosen_action ==
            ChosenAction(self, current_state, first_choice, draw, explore_choice)
        s1 == InitializeQTable(self, seed)
        s2 == IF AppliesUpdate(s1)
              THEN UpdateQTable(s1, Reward(current_state), state_string)
              ELSE s1
    IN [self |-> [s2 EXCEPT !.prev_state = state_string,
                            !.prev_action = chosen_action],
        ret |-> chosen_action]

\* ---------------------------------------------------------- state machine
VARIABLES
    q,            \* self.q
    prev_state,   \* self.prev_state
    prev_action,  \* self.prev_action
    train,        \* self.train
    file,         \* the file at self.path
    pc,           \* "new": no agent yet; "ready": constructed; "failed": __init__ raised
    ret,          \* the value the last choose_action call returned
    draw,         \* the value of random.uniform(0, 2) in the last call
    updated,      \* whether the last call of choose_action called update_q_table
    calls,        \* choose_action calls on the current agent
    steps,        \* operations so far
    op,           \* the last operation: "none", "__init__", "choose_action", ...
    probe         \* arguments and results of a function applied on its own

vars == <<q, prev_state, prev_action, train, file, pc, ret, draw, updated,
          calls, steps, op, probe>>

NoProbe == [op |-> "none"]

\* the agent made of the variables
Self ==
    [q |-> q, prev_state |-> prev_state, prev_action |-> prev_action,
     train |-> train, file |-> file, raised |-> FALSE]

\* values of random.uniform(0, 1), in units of 1/Scale
Seeds == {(i * Scale) \div NumSeeds : i \in 0..(NumSeeds - 1)}

\* values of random.uniform(0, 2), in units of 1/Scale: from 0 up to the
\* largest one below 2, which the call does not return
Draws == {(i * (UniformHigh * Scale - 1)) \div NumDraws : i \in 0..NumDraws}

\* the training names an agent is constructed with: None, or the name "q"
\* (an agent without a name uses the name "q" too, so both use one file)
TrainNames == {None, "q"}

\* the state descriptions the game sends: the frog at the left of a board of
\* one row, the cell to its right free or holding a car; playing, dead, or at
\* the goal with a score
TickRows == {<< <<None, None>> >>, << <<None, "c">> >>}

TickStates ==
    {MkState(r, 0, 0, 0, d, FALSE) : r \in TickRows, d \in BOOLEAN}
    \cup {MkState(r, 0, 0, sc, TRUE, TRUE) : r \in TickRows, sc \in 1..MaxScore}

\* a table an earlier training session saved: one key, initialized after the
\* action l with the seed 0.5 and updated once with reward 0
TrainedTable ==
    << <<"________", <<<<"u", 0>>, <<"d", 0>>, <<"l", 45>>, <<"r", 0>>, <<"_", 0>>>> >> >>

\* what the file at self.path holds before the first agent is constructed
InitialFiles == {NoFile, FileOf(EmptyDict), FileOf(TrainedTable)}

Init ==
    /\ q = EmptyDict
    /\ prev_state = NoState
    /\ prev_action = None
    /\ train = None
    /\ file \in InitialFiles
    /\ pc = "new"
    /\ ret = None
    /\ draw = 0
    /\ updated = FALSE
    /\ calls = 0
    /\ steps = 0
    /\ op = "none"
    /\ probe = NoProbe

\* Agent(train=t): __init__, with its call of load
Construct(t) ==
    /\ steps < MaxSteps
    /\ LET a == Load(NewAgent(t, file))
       IN /\ pc' = IF a.raised THEN "failed" ELSE "ready"
          /\ q' = a.q
          /\ prev_state' = a.prev_state
          /\ prev_action' = a.prev_action
          /\ train' = a.train
          /\ file' = a.file
    /\ ret' = None
    /\ draw' = 0
    /\ updated' = FALSE
    /\ calls' = 0
    /\ steps' = steps + 1
    /\ op' = "__init__"
    /\ probe' = probe

\* the values the random calls of one choose_action call can take: the first
\* random.choice runs on a first move only, the second when the draw explores,
\* random.uniform(0, 1) when initialize_q_table seeds a new key; a call that
\* is not made is given the value None (0 for the seed)
FirstChoices(self) ==
    IF self.prev_state = NoState \/ self.prev_action = None
    THEN ActionSet
    ELSE {None}

ExploreChoices(d) == IF Explores(d) THEN ActionSet ELSE {None}

SeedsDrawn(self) ==
    IF /\ self.prev_state # NoState
       /\ self.prev_action # None
       /\ ~DictHas(self.q, QState(self.prev_state).key)
    THEN Seeds
    ELSE {0}

\* agent.choose_action(state_string)
Choose(state_string, first_choice, d, explore_choice, seed) ==
    /\ pc = "ready"
    /\ steps < MaxSteps
    /\ \E r \in {ChooseAction(Self, state_string, first_choice, d,
                              explore_choice, seed)} :
          /\ q' = r.self.q
          /\ prev_state' = r.self.prev_state
          /\ prev_action' = r.self.prev_action
          /\ train' = r.self.train
          /\ file' = r.self.file
          /\ ret' = r.ret
    /\ draw' = d
    /\ updated' = AppliesUpdate(Self)
    /\ calls' = calls + 1
    /\ steps' = steps + 1
    /\ pc' = pc
    /\ op' = "choose_action"
    /\ probe' = probe

Next ==
    \/ \E t \in TrainNames : Construct(t)
    \/ \E s \in TickStates, d \in Draws :
          \E c1 \in FirstChoices(Self), c2 \in ExploreChoices(d),
             seed \in SeedsDrawn(Self) : Choose(s, c1, d, c2, seed)

Spec == Init /\ [][Next]_vars

\* ------------------------------------------- one episode from scratch
\* the agent Agent('q') constructed when no table was saved
InitEpisode ==
    /\ q = EmptyDict
    /\ prev_state = NoState
    /\ prev_action = None
    /\ train = "q"
    /\ file = NoFile
    /\ pc = "ready"
    /\ ret = None
    /\ draw = 0
    /\ updated = FALSE
    /\ calls = 0
    /\ steps = 0
    /\ op = "__init__"
    /\ probe = NoProbe

\* the states of an episode before it ends
EpisodeStates == {s \in TickStates : ~s.is_done /\ ~s.at_goal}

\* the calls of choose_action during the episode
NextEpisode ==
    \E s \in EpisodeStates, d \in Draws :
        \E c1 \in FirstChoices(Self), c2 \in ExploreChoices(d),
           seed \in SeedsDrawn(Self) : Choose(s, c1, d, c2, seed)

SpecEpisode == InitEpisode /\ [][NextEpisode]_vars

\* ------------------------------------------ update_q_table on its own
\* the entries a key of a table can hold: none, the initial ones, the initial
\* ones with one value changed
SampleValues == {-Scale, 5 * Scale, 10 * Scale}

SampleEntries ==
    {EmptyDict, ZeroEntries}
    \cup {DictSet(ZeroEntries, a, v) : a \in {"u", "_"}, v \in SampleValues}

\* the keys of the states of TickStates
TickKeys == <<"________", "____c___">>

\* the tables over these keys: each key absent or present
SampleTables ==
    {EmptyDict}
    \cup {<< <<TickKeys[i], e>> >> : i \in 1..2, e \in SampleEntries}
    \cup {<< <<TickKeys[1], e1>>, <<TickKeys[2], e2>> >> :
             e1 \in SampleEntries, e2 \in SampleEntries}

\* the rewards Q_State.reward gives
Rewards == {-DonePenalty} \cup (0..MaxScore)

\* an agent with a table and a recorded transition
InitUpdate ==
    /\ q \in SampleTables
    /\ prev_state \in TickStates
    /\ prev_action \in ActionSet
    /\ train = "q"
    /\ file = NoFile
    /\ pc = "ready"
    /\ ret = None
    /\ draw = 0
    /\ updated = FALSE
    /\ calls = 0
    /\ steps = 0
    /\ op = "none"
    /\ probe = NoProbe

\* agent.update_q_table(reward, next_state_string)
Update(reward, next_state_string) ==
    /\ op = "none"
    /\ \E a \in {UpdateQTable(Self, reward, next_state_string)} :
          /\ q' = a.q
          /\ prev_state' = a.prev_state
          /\ prev_action' = a.prev_action
          /\ train' = a.train
          /\ file' = a.file
    /\ op' = "update_q_table"
    /\ probe' = [op |-> "update_q_table", reward |-> reward,
                 next_state_string |-> next_state_string]
    /\ steps' = steps + 1
    /\ UNCHANGED <<pc, ret, draw, updated, calls>>

NextUpdate == \E r \in Rewards, n \in TickStates : Update(r, n)

SpecUpdate == InitUpdate /\ [][NextUpdate]_vars

\* -------------------------------------- initialize_q_table on its own
\* an agent with a table and a transition record, empty or not
InitInitialize ==
    /\ q \in SampleTables
    /\ prev_state \in TickStates \cup {NoState}
    /\ prev_action \in ActionSet \cup {None}
    /\ train = "q"
    /\ file = NoFile
    /\ pc = "ready"
    /\ ret = None
    /\ draw = 0
    /\ updated = FALSE
    /\ calls = 0
    /\ steps = 0
    /\ op = "none"
    /\ probe = NoProbe

\* agent.initialize_q_table()
Initialize(seed) ==
    /\ op = "none"
    /\ \E a \in {InitializeQTable(Self, seed)} :
          /\ q' = a.q
          /\ prev_state' = a.prev_state
          /\ prev_action' = a.prev_action
          /\ train' = a.train
          /\ file' = a.file
    /\ op' = "initialize_q_table"
    /\ probe' = [op |-> "initialize_q_table", seed |-> seed]
    /\ steps' = steps + 1
    /\ UNCHANGED <<pc, ret, draw, updated, calls>>

NextInitialize == \E seed \in Seeds : Initialize(seed)

SpecInitialize == InitInitialize /\ [][NextInitialize]_vars

\* ------------------------------------------------- Q_State on its own
\* what a cell of a board holds: nothing, or a car
Cells == {None, "c"}

Boards == [1..GridH -> [1..GridW -> Cells]]

\* the state descriptions over these boards
BoardStates ==
    {MkState(rows, x, y, sc, d, g) :
        rows \in Boards, x \in 0..(GridW - 1), y \in 0..(GridH - 1),
        sc \in 0..MaxScore, d \in BOOLEAN, g \in BOOLEAN}

InitQState ==
    /\ q = EmptyDict
    /\ prev_state = NoState
    /\ prev_action = None
    /\ train = None
    /\ file = NoFile
    /\ pc = "new"
    /\ ret = None
    /\ draw = 0
    /\ updated = FALSE
    /\ calls = 0
    /\ steps = 0
    /\ op = "none"
    /\ \E s \in BoardStates : probe = [op |-> "none", state_string |-> s]

\* Q_State(state_string), and its reward()
MakeQState ==
    /\ op = "none"
    /\ \E current_state \in {QState(probe.state_string)} :
          probe' = [op |-> "Q_State", state_string |-> probe.state_string,
                    key |-> current_state.key,
                    reward |-> Reward(current_state)]
    /\ op' = "Q_State"
    /\ steps' = steps + 1
    /\ UNCHANGED <<q, prev_state, prev_action, train, file, pc, ret, draw,
                   updated, calls>>

NextQState == MakeQState

SpecQState == InitQState /\ [][NextQState]_vars

\* ------------------------------------------------------------------ claims
\* a step that is a call of choose_action, and one that constructs an agent
ChooseStep == op' = "choose_action" /\ steps' = steps + 1

ConstructStep == op' = "__init__" /\ steps' = steps + 1

\* C1: every choose_action call returns one of the actions u, d, l, r, _;
\* None is never returned.
C1_ReturnsAnAction == op = "choose_action" => ret \in ActionSet

\* C2: an agent constructed with train = None leaves its table and the file
\* unchanged in every choose_action call.
C2_ReadOnlyOutsideTraining ==
    [][(ChooseStep /\ train = None) => (q' = q /\ file' = file)]_vars

\* C3: constructing an agent with train = None when the file does not exist
\* fails, and does not create the file.
C3_ConstructionFailsWithoutFile ==
    [][(ConstructStep /\ train' = None /\ ~file.exists)
          => (pc' = "failed" /\ ~file'.exists)]_vars

C3_Witness ==
    op = "__init__" /\ train = None /\ ~file.exists /\ pc = "failed"

\* C4: constructing a training agent succeeds; with a file the table is the
\* persisted one, without a file the table and the transition record are empty.
C4_TrainingConstructionSucceeds ==
    [][(ConstructStep /\ train' # None)
          => /\ pc' = "ready"
             /\ file' = file
             /\ file.exists => JsonDump(q') = file.text
             /\ ~file.exists =>
                   q' = EmptyDict /\ prev_state' = NoState /\ prev_action' = None]_vars

C4_Witness ==
    /\ op = "__init__" /\ train # None /\ pc = "ready"
    /\ ~file.exists /\ q = EmptyDict /\ steps > 1

C4_WitnessLoaded ==
    /\ op = "__init__" /\ train # None /\ pc = "ready"
    /\ file.exists /\ q = TrainedTable

\* C5: the first choose_action call of an agent changes neither the table nor
\* the file.
C5_FirstCallNoUpdate ==
    [][(ChooseStep /\ calls = 0) => (q' = q /\ file' = file)]_vars

C5_Witness ==
    op = "choose_action" /\ calls = 1 /\ ~updated /\ ret \in ActionSet

\* C6: in training mode, after every call that applied the update rule the
\* file holds the in-memory table.
C6_WriteThrough ==
    (op = "choose_action" /\ updated /\ train # None)
        => (file.exists /\ JsonLoad(file.text) = q)

C6_Witness ==
    /\ op = "choose_action" /\ updated /\ train # None
    /\ file.exists /\ Len(q) = 2

\* C8: saving a table reachable by training and loading it in a new agent of
\* the same name gives a table with the same keys, entries, order and values.
C8_RoundTrip ==
    (pc = "ready" /\ train # None)
        => LET fresh == Load(NewAgent(train, Save(Self).file))
           IN ~fresh.raised /\ fresh.q = q

C8_Witness ==
    /\ pc = "ready" /\ train # None /\ updated
    /\ \E i \in 1..Len(q) : \E j \in 1..Len(q[i][2]) : q[i][2][j][2] % 10 # 0

\* the entry of a table, 0 when the key or the action is missing
Entry(table, key, action) == DictGet(DictGet(table, key, EmptyDict), action, 0)

\* the largest value under a key, 0 when the key is missing or has no entry
LargestUnder(table, key) ==
    LET e == DictGet(table, key, EmptyDict)
    IN IF Len(e) = 0
       THEN 0
       ELSE CHOOSE v \in {e[i][2] : i \in 1..Len(e)} :
                \A i \in 1..Len(e) : e[i][2] <= v

\* C7: update_q_table sets the entry of the previous key and action to
\* 0.9 * current_q + 0.1 * (reward + 0.9 * max_next_q); from 0, 0 and reward
\* -10 it gives -1.0, from 5, 10 and reward 0 it gives 5.4 (in hundredths,
\* rounded down).
C7_UpdateRule ==
    [][op' = "update_q_table" =>
         LET key == ComputeKey(prev_state)
             current_q == Entry(q, key, prev_action)
             max_next_q ==
                 LargestUnder(q, ComputeKey(probe'.next_state_string))
             new_q == Entry(q', key, prev_action)
         IN /\ DictHas(q', key)
            /\ DictHas(DictGet(q', key, EmptyDict), prev_action)
            /\ new_q = (90 * current_q + 10 * (100 * probe'.reward)
                          + 9 * max_next_q) \div 100
            /\ (current_q = 0 /\ max_next_q = 0 /\ probe'.reward = -10)
                   => new_q = -100
            /\ (current_q = 500 /\ max_next_q = 1000 /\ probe'.reward = 0)
                   => new_q = 540]_vars

C7_Witness ==
    /\ op = "update_q_table" /\ probe.reward = 0
    /\ Entry(q, ComputeKey(prev_state), prev_action) = 540
    /\ LargestUnder(q, ComputeKey(probe.next_state_string)) = 1000

C7_WitnessPenalty ==
    /\ op = "update_q_table" /\ probe.reward = -10
    /\ Entry(q, ComputeKey(prev_state), prev_action) = -100

\* C9: reward() is the score when the state is at goal (done or not), -10 when
\* it is done and not at goal, 0 otherwise.
C9_Reward ==
    op = "Q_State" =>
        LET s == probe.state_string
        IN /\ s.at_goal => probe.reward = s.score
           /\ (s.is_done /\ ~s.at_goal) => probe.reward = -10
           /\ (~s.is_done /\ ~s.at_goal) => probe.reward = 0

C9_Witness ==
    /\ op = "Q_State"
    /\ probe.state_string.at_goal /\ probe.state_string.is_done
    /\ probe.state_string.score > 0 /\ probe.reward = probe.state_string.score

\* the eight cells around the frog, top-left, top, top-right, left, right,
\* bottom-left, bottom, bottom-right; an out-of-bounds or unoccupied cell is "_"
CellAt(s, dx, dy) ==
    LET v == StateGet(s, s.frog_x + dx, s.frog_y + dy)
    IN IF v = None THEN "_" ELSE v

Neighbourhood(s) ==
    <<CellAt(s, -1, -1), CellAt(s, 0, -1), CellAt(s, 1, -1),
      CellAt(s, -1, 0), CellAt(s, 1, 0),
      CellAt(s, -1, 1), CellAt(s, 0, 1), CellAt(s, 1, 1)>>

C11_InitializeKeepsPresentKey ==
    [][(/\ op' = "initialize_q_table"
        /\ prev_state # NoState
        /\ DictHas(q, ComputeKey(prev_state))) => q' = q]_vars

C11_Witness ==
    /\ op = "initialize_q_table"
    /\ prev_state # NoState
    /\ prev_action = "u"
    /\ Entry(q, ComputeKey(prev_state), "u") = 5 * Scale


\* the actions a key of a table has entries for
ActionsOf(entries) == {entries[j][1] : j \in 1..Len(entries)}

\* C12: every key of the table has an entry for exactly the five actions
\* u, d, l, r, _; a key that initialize_q_table adds holds 0 everywhere except
\* at most under the previous action, which holds a seed in [0, 1).
C12_FiveActionsPerKey ==
    pc = "ready" =>
        /\ \A i \in 1..Len(q) :
               /\ Len(q[i][2]) = 5
               /\ ActionsOf(q[i][2]) = {"u", "d", "l", "r", "_"}
        /\ (prev_state # NoState /\ ~DictHas(q, ComputeKey(prev_state))) =>
               \A seed \in Seeds :
                   LET e == DictGet(InitializeQTable(Self, seed).q,
                                    ComputeKey(prev_state), EmptyDict)
                   IN /\ Len(e) = 5
                      /\ ActionsOf(e) = {"u", "d", "l", "r", "_"}
                      /\ \A j \in 1..Len(e) :
                             \/ e[j][2] = 0
                             \/ /\ e[j][1] = prev_action
                                /\ e[j][2] >= 0 /\ e[j][2] < 100

\* a key that no saved table holds was added and updated, and the next call
\* will add another one after an action
C12_Witness ==
    /\ op = "choose_action" /\ updated
    /\ DictHas(q, "____c___")
    /\ prev_action \in ActionSet
    /\ ~DictHas(q, ComputeKey(prev_state))


\* C13: a choose_action call removes no key of the table and no action entry
\* of a key.
C13_TableGrowsMonotonically ==
    [][ChooseStep =>
          \A i \in 1..Len(q) :
              /\ DictHas(q', q[i][1])
              /\ \A j \in 1..Len(q[i][2]) :
                     DictHas(DictGet(q', q[i][1], EmptyDict), q[i][2][j][1])]_vars

\* the table had a key; a later call added a second one and updated it
C13_Witness ==
    /\ op = "choose_action" /\ updated /\ calls = 3
    /\ Len(q) = 2
    /\ \E j \in 1..Len(q[2][2]) : q[2][2][j][2] # 0


\* C14: every choose_action call of an agent but its first applies the update
\* rule to the entry of the previous call's state key and returned action.
C14_UpdateOnEveryLaterCall ==
    [][(ChooseStep /\ calls >= 1) =>
          /\ updated'
          /\ file' = FileOf(q')
          /\ DictHas(DictGet(q', ComputeKey(prev_state), EmptyDict),
                     prev_action)]_vars

\* a state that ends an episode
Terminal(s) == s.is_done \/ s.at_goal

\* C15: the call after one whose state was terminal applies no update with
\* that terminal state as the previous state.
C15_NoUpdateAcrossEpisodes ==
    [][(ChooseStep /\ prev_state # NoState /\ Terminal(prev_state))
          => ~updated']_vars

\* the place of an action in the order u, d, l, r, _
Place(a) == CHOOSE i \in 1..5 : <<"u", "d", "l", "r", "_">>[i] = a

\* C16: an exploiting call whose state's key is in the table returns an
\* action holding the largest value under that key, the first such action in
\* the order u, d, l, r, _.
C16_ExploitPicksFirstMaximum ==
    [][(/\ ChooseStep
        /\ ~(draw' * 10 < 100)
        /\ DictHas(q, ComputeKey(prev_state'))) =>
          LET key == ComputeKey(prev_state')
          IN /\ ret' \in {"u", "d", "l", "r", "_"}
             /\ \A a \in {"u", "d", "l", "r", "_"} :
                    /\ Entry(q, key, a) <= Entry(q, key, ret')
                    /\ Place(a) < Place(ret')
                           => Entry(q, key, a) < Entry(q, key, ret')]_vars

\* an exploiting call returned l, the only largest entry of the loaded table
C16_Witness ==
    /\ op = "choose_action" /\ ~(draw * 10 < 100)
    /\ ret = "l"
    /\ ComputeKey(prev_state) = "________"

\* an exploiting call returned u, the first of five equal entries
C16_WitnessTie ==
    /\ op = "choose_action" /\ ~(draw * 10 < 100)
    /\ ret = "u"

\* C17: on a call that is not the first the draw is a value of the unit
\* interval, a draw below 0.1 explores and any other draw exploits.
C17_ExploresOneInTen ==
    [][(ChooseStep /\ calls >= 1) =>
          /\ draw' >= 0 /\ draw' <= 100
          /\ draw' >= 10 =>
                 ret' = MaxKey(DictGet(q, ComputeKey(prev_state'), EmptyDict))]_vars


\* C18: a choose_action call changes no key of the table but the key of the
\* previous state and, when that key was present, no entry of it but the one
\* of the previous action; the table after the call is the same whichever
\* action the call chooses.
C18_FrameOfOneCall ==
    [][ChooseStep =>
          IF prev_state = NoState
          THEN q' = q
          ELSE LET pk == ComputeKey(prev_state)
                   e == DictGet(q, pk, EmptyDict)
                   e2 == DictGet(q', pk, EmptyDict)
               IN /\ \A i \in 1..Len(q') :
                         q'[i][1] # pk => (i <= Len(q) /\ q'[i] = q[i])
                  /\ \A i \in 1..Len(q) :
                         q[i][1] # pk => (i <= Len(q') /\ q'[i] = q[i])
                  /\ DictHas(q, pk) =>
                         /\ Len(e2) = Len(e)
                         /\ \A j \in 1..Len(e) :
                                /\ e2[j][1] = e[j][1]
                                /\ e[j][1] # prev_action => e2[j][2] = e[j][2]
                  /\ \E seed \in Seeds :
                         \A d \in Draws, c \in ActionSet :
                             ChooseAction(Self, prev_state', None, d, c,
                                          seed).self.q = q']_vars

\* a call updated the entry of another key than the one of its own state,
\* which is in the table too
C18_Witness ==
    /\ op = "choose_action" /\ updated
    /\ Len(q) = 2
    /\ q[1][1] = ComputeKey(prev_state)
    /\ \E j \in 1..Len(q[2][2]) : q[2][2][j][2] # 0

\* C19 as claimed: a call whose state's key is in the table returns one of
\* u, d, l, r, _, every key has entries, and a call after one that returned
\* None skips the update and leaves five zeros under the previous key.
C19_AfterNoneKeyIsZero ==
    [][ChooseStep =>
          /\ \A i \in 1..Len(q) : Len(q[i][2]) > 0
          /\ DictHas(q, ComputeKey(prev_state')) =>
                 ret' \in {"u", "d", "l", "r", "_"}
          /\ (calls >= 1 /\ ret = None) =>
                 /\ ~updated'
                 /\ DictGet(q', ComputeKey(prev_state), EmptyDict)
                        = <<<<"u", 0>>, <<"d", 0>>, <<"l", 0>>, <<"r", 0>>,
                            <<"_", 0>>>>]_vars

\* C19 as amended: after a call that returned None the next call skips the
\* update and adds the previous key with five zeros only if the key is not in
\* the table; a key that is in the table keeps its values.
C19_AfterNoneKeyIsAddedIfAbsent ==
    [][ChooseStep =>
          /\ \A i \in 1..Len(q) : Len(q[i][2]) > 0
          /\ DictHas(q, ComputeKey(prev_state')) =>
                 ret' \in {"u", "d", "l", "r", "_"}
          /\ (calls >= 1 /\ ret = None) =>
                 /\ ~updated'
                 /\ file' = file
                 /\ q' = IF DictHas(q, ComputeKey(prev_state))
                         THEN q
                         ELSE Append(q, <<ComputeKey(prev_state),
                                          <<<<"u", 0>>, <<"d", 0>>, <<"l", 0>>,
                                            <<"r", 0>>, <<"_", 0>>>>>>)]_vars

\* the third call followed one that returned None and added the key of its
\* own state with a seed: the call skipped the update and kept the values
C19_Witness ==
    /\ op = "choose_action" /\ calls = 3 /\ ~updated
    /\ Len(q) = 1
    /\ \E j \in 1..Len(q[1][2]) : q[1][2][j][2] # 0

====
